---- MODULE Spec2Model ----
(***************************************************************************)
(* Model of src/src/processors/irr_processor.py: IRRProcessor merges two   *)
(* raters' annotation lists into an agreement table                        *)
(* (_get_agreement_table) and reduces it to Krippendorff's alpha           *)
(* (calculate_irr).                                                        *)
(*                                                                         *)
(* A Python str is a sequence of one-character strings, so that strip(),   *)
(* lower() and split(", ") are computed character by character.  A float   *)
(* is an exact rational [kind |-> "num", n, d] or one of the IEEE specials *)
(* "nan" / "inf" that numpy's true division produces for a zero divisor;   *)
(* rounding error is not modelled.                                         *)
(***************************************************************************)
EXTENDS Integers, Sequences, FiniteSets, TLC

VARIABLES rater1_data, rater2_data, agreement_table, krip_alpha, error, pc

vars == <<rater1_data, rater2_data, agreement_table, krip_alpha, error, pc>>

(***************************************************************************)
(* Bounds and input domains                                                *)
(***************************************************************************)
\* largest number of RaterDataRow per rater
MaxRows == 2

\* the label vocabulary handed to IRRProcessor.__init__
available_labels == << <<"a">>, <<"b">>, <<"c">> >>

\* ProcessorConfig.data_column_name
data_column_name == <<"d", "a", "t", "a">>

\* the bookkeeping column added by df["num_rater"] = 0
num_rater == <<"n", "u", "m", "_", "r", "a", "t", "e", "r">>

Range(s) == {s[i] : i \in DOMAIN s}

SeqsUpTo(S, k) == UNION {[1..m -> S] : m \in 0..k}

\* raw item texts: "x", "x " and " x" differ by surrounding whitespace only
KeyX == <<"x">>
KeyXTrail == <<"x", " ">>
KeyY == <<"y">>

\* raw label texts
LabA == <<"a">>
LabUpperB == <<"B">>
LabC == <<"c">>
LabAB == <<"a", ",", " ", "b">>
LabAA == <<"a", ",", " ", "a">>
LabBlank == <<" ">>

RaterDataRow(data, labels) == [data |-> data, labels |-> labels]

\* annotations with untidy text: whitespace variants of one item, a repeated
\* token, a blank label text and a token that names the bookkeeping column
MessyRows ==
    { RaterDataRow(KeyX, LabA), RaterDataRow(KeyXTrail, LabUpperB),
      RaterDataRow(KeyX, LabAB), RaterDataRow(KeyY, LabAA),
      RaterDataRow(KeyY, LabBlank), RaterDataRow(KeyY, num_rater) }

\* annotations with tidy text: two items, one or two distinct known labels each
CleanRows ==
    { RaterDataRow(KeyX, LabA), RaterDataRow(KeyX, LabC),
      RaterDataRow(KeyX, LabAB), RaterDataRow(KeyY, LabA),
      RaterDataRow(KeyY, LabUpperB) }

(***************************************************************************)
(* str.strip, str.lower, str.split                                         *)
(***************************************************************************)
Whitespace == {" "}

RECURSIVE lstrip(_)
lstrip(s) ==
    IF Len(s) > 0 /\ Head(s) \in Whitespace THEN lstrip(Tail(s)) ELSE s

RECURSIVE rstrip(_)
rstrip(s) ==
    IF Len(s) > 0 /\ s[Len(s)] \in Whitespace
    THEN rstrip(SubSeq(s, 1, Len(s) - 1))
    ELSE s

\* str.lstrip in the place of str.strip
strip_left_only(s) == lstrip(s)

strip(s) == rstrip(lstrip(s))

LowerChar(c) ==
    CASE c = "A" -> "a"
      [] c = "B" -> "b"
      [] c = "C" -> "c"
      [] OTHER -> c

lower(s) == [i \in DOMAIN s |-> LowerChar(s[i])]

\* position of the first ", " in s, 0 when there is none
FindSep(s) ==
    LET hits == {i \in 1..(Len(s) - 1) : s[i] = "," /\ s[i + 1] = " "}
    IN IF hits = {} THEN 0 ELSE CHOOSE i \in hits : \A j \in hits : i <= j

RECURSIVE split(_)
split(s) ==
    LET i == FindSep(s)
    IN IF i = 0
       THEN <<s>>
       ELSE <<SubSeq(s, 1, i - 1)>> \o split(SubSeq(s, i + 2, Len(s)))

process_labels(labels) ==
    LET parts == split(lower(labels))
    IN [i \in DOMAIN parts |-> strip(parts[i])]

(***************************************************************************)
(* _get_agreement_table: the keyed merge (hash_map, insertion ordered)     *)
(***************************************************************************)
\* index of key in hash_map, 0 when absent
KeyIndex(hash_map, key) ==
    LET hits == {i \in DOMAIN hash_map : hash_map[i].key = key}
    IN IF hits = {} THEN 0 ELSE CHOOSE i \in hits : TRUE

\* a repeated item keeps the rater's first label list
put_rater1_keep_first(hash_map, rater_data) ==
    LET cleaned_data == strip(rater_data.data)
        entry == [key |-> cleaned_data,
                  label_1 |-> process_labels(rater_data.labels),
                  label_2 |-> <<>>]
        i == KeyIndex(hash_map, cleaned_data)
    IN IF i = 0 THEN Append(hash_map, entry) ELSE hash_map

\* body of the loop over rater1_data.rows
put_rater1(hash_map, rater_data) ==
    LET cleaned_data == strip(rater_data.data)
        entry == [key |-> cleaned_data,
                  label_1 |-> process_labels(rater_data.labels),
                  label_2 |-> <<>>]
        i == KeyIndex(hash_map, cleaned_data)
    IN IF i = 0 THEN Append(hash_map, entry) ELSE [hash_map EXCEPT ![i] = entry]

\* the rater-2 loop written like the rater-1 loop: the other slot is reset
put_rater2_overwrite(hash_map, rater_data) ==
    LET cleaned_data == strip(rater_data.data)
        entry == [key |-> cleaned_data,
                  label_1 |-> <<>>,
                  label_2 |-> process_labels(rater_data.labels)]
        i == KeyIndex(hash_map, cleaned_data)
    IN IF i = 0 THEN Append(hash_map, entry) ELSE [hash_map EXCEPT ![i] = entry]

\* body of the loop over rater2_data.rows
put_rater2(hash_map, rater_data) ==
    LET cleaned_data == strip(rater_data.data)
        labels == process_labels(rater_data.labels)
        i == KeyIndex(hash_map, cleaned_data)
    IN IF i = 0
       THEN Append(hash_map, [key |-> cleaned_data, label_1 |-> <<>>,
                              label_2 |-> labels])
       ELSE [hash_map EXCEPT ![i].label_2 = labels]

RECURSIVE merge_rater1(_, _)
merge_rater1(hash_map, rows) ==
    IF rows = <<>> THEN hash_map
    ELSE merge_rater1(put_rater1(hash_map, Head(rows)), Tail(rows))

RECURSIVE merge_rater2(_, _)
merge_rater2(hash_map, rows) ==
    IF rows = <<>> THEN hash_map
    ELSE merge_rater2(put_rater2(hash_map, Head(rows)), Tail(rows))

build_hash_map(r1, r2) == merge_rater2(merge_rater1(<<>>, r1), r2)

(***************************************************************************)
(* _get_agreement_table: the DataFrame and its counting loop               *)
(***************************************************************************)
\* the columns of a row that hold counts: one per label, plus num_rater
CountColumns == Range(available_labels) \cup {num_rater}

NewCells == [c \in CountColumns |-> 0]

\* df.at[row_idx, label] += 1; a label that is no column raises KeyError, the
\* item-text column cannot be incremented (str + int raises TypeError)
increment(st, label) ==
    IF st.err # "none" THEN st
    ELSE IF label \in DOMAIN st.cells
         THEN [st EXCEPT !.cells[label] = @ + 1]
         ELSE IF label = data_column_name
              THEN [st EXCEPT !.err = "TypeError"]
              ELSE [st EXCEPT !.err = "KeyError"]

RECURSIVE add_labels(_, _)
add_labels(st, labels) ==
    IF labels = <<>> THEN st
    ELSE add_labels(increment(st, Head(labels)), Tail(labels))

count_raters(users_labels) ==
    (IF Len(users_labels.label_1) > 0 THEN 1 ELSE 0)
    + (IF Len(users_labels.label_2) > 0 THEN 1 ELSE 0)

\* one pass of the loop over hash_map.items() that fills a row
fill_row(users_labels) ==
    LET st0 == [err |-> "none",
                cells |-> [NewCells EXCEPT ![num_rater] =
                                               count_raters(users_labels)]]
    IN add_labels(add_labels(st0, users_labels.label_1), users_labels.label_2)

RECURSIVE fill_rows(_, _)
fill_rows(hash_map, done) ==
    IF hash_map = <<>> THEN [err |-> "none", rows |-> done]
    ELSE LET st == fill_row(Head(hash_map))
         IN IF st.err # "none"
            THEN [err |-> st.err, rows |-> <<>>]
            ELSE fill_rows(Tail(hash_map),
                           Append(done, [data |-> Head(hash_map).key,
                                         cells |-> st.cells]))

get_agreement_table(r1, r2) == fill_rows(build_hash_map(r1, r2), <<>>)

(***************************************************************************)
(* Floating-point values of calculate_irr, as exact rationals              *)
(***************************************************************************)
Abs(x) == IF x < 0 THEN -x ELSE x

RECURSIVE GCD(_, _)
GCD(a, b) == IF b = 0 THEN a ELSE GCD(b, a % b)

\* the rational n / d (d # 0) in lowest terms with a positive denominator
Num(n, d) ==
    LET g == GCD(Abs(n), Abs(d))
        sgn == IF d < 0 THEN -1 ELSE 1
    IN [kind |-> "num", n |-> (sgn * n) \div g, d |-> Abs(d) \div g]

NaN == [kind |-> "nan", n |-> 0, d |-> 1]

Inf(sign) == [kind |-> "inf", n |-> sign, d |-> 1]

None == [kind |-> "none", n |-> 0, d |-> 1]

FAdd(x, y) ==
    IF x.kind = "num" /\ y.kind = "num"
    THEN Num(x.n * y.d + y.n * x.d, x.d * y.d)
    ELSE NaN

FSub(x, y) ==
    IF x.kind = "num" /\ y.kind = "num"
    THEN Num(x.n * y.d - y.n * x.d, x.d * y.d)
    ELSE NaN

FMul(x, y) ==
    IF x.kind = "num" /\ y.kind = "num"
    THEN Num(x.n * y.n, x.d * y.d)
    ELSE NaN

\* numpy true division: a zero divisor gives nan (0 / 0) or a signed inf
FDiv(x, y) ==
    IF x.kind # "num" \/ y.kind # "num" THEN NaN
    ELSE IF y.n = 0
         THEN IF x.n = 0 THEN NaN ELSE Inf(IF x.n > 0 THEN 1 ELSE -1)
         ELSE Num(x.n * y.d, x.d * y.n)

FLess(x, y) == x.kind = "num" /\ y.kind = "num" /\ x.n * y.d < y.n * x.d

RECURSIVE SumInts(_)
SumInts(s) == IF s = <<>> THEN 0 ELSE Head(s) + SumInts(Tail(s))

RECURSIVE SumFloats(_)
SumFloats(s) == IF s = <<>> THEN Num(0, 1) ELSE FAdd(Head(s), SumFloats(Tail(s)))

(***************************************************************************)
(* calculate_irr                                                           *)
(***************************************************************************)
\* r_i = agreement_table.loc[i, self.available_labels].sum()
row_total(row) ==
    SumInts([k \in DOMAIN available_labels |-> row.cells[available_labels[k]]])

\* the mean taken by numpy: an empty table gives nan, not an exception
mean_raters_numpy(table) ==
    IF Len(table) = 0
    THEN [err |-> "none", value |-> NaN]
    ELSE [err |-> "none",
          value |-> Num(SumInts([i \in DOMAIN table |->
                                     table[i].cells[num_rater]]),
                        Len(table))]

\* r_bar = sum of num_rater / n; the sum of an empty list is the Python int
\* 0, so that n = 0 raises ZeroDivisionError
mean_raters(table) ==
    IF Len(table) = 0
    THEN [err |-> "ZeroDivisionError", value |-> None]
    ELSE [err |-> "none",
          value |-> Num(SumInts([i \in DOMAIN table |->
                                     table[i].cells[num_rater]]),
                        Len(table))]

\* the numerator without its "- 1"
p_aik_square(r_ik, r_bar, r_i) ==
    FDiv(Num(r_ik * r_ik, 1), FMul(r_bar, Num(r_i - 1, 1)))

\* p_aik = (r_ik * (rbar_ik - 1)) / (r_bar * (r_i - 1)), with rbar_ik = r_ik
p_aik(r_ik, r_bar, r_i) ==
    FDiv(Num(r_ik * (r_ik - 1), 1), FMul(r_bar, Num(r_i - 1, 1)))

\* the inner loop over the label columns of row i
row_agreement(row, r_bar) ==
    SumFloats([k \in DOMAIN available_labels |->
                   p_aik(row.cells[available_labels[k]], r_bar, row_total(row))])

\* PI_k = agreement_table[label].sum() / total_num_ratings
label_share(table, label, total_num_ratings) ==
    FDiv(Num(SumInts([i \in DOMAIN table |-> table[i].cells[label]]), 1),
         Num(total_num_ratings, 1))

\* The part of calculate_irr after the table is built.  dtype is the dtype of
\* the label columns left by df.replace(np.nan, 0): "int64" where pandas
\* downcasts the object columns, "object" where it does not.  Python int
\* division by zero raises, numpy division by zero yields nan.
alpha_of_table(table, dtype) ==
    LET n == Len(table)
        mean == mean_raters(table)
    IN IF mean.err # "none"
       THEN [err |-> mean.err, alpha |-> None]
       ELSE
       LET r_bar == mean.value
           total_num_ratings ==
               SumInts([i \in DOMAIN table |-> row_total(table[i])])
           p_primea ==
               FDiv(SumFloats([i \in DOMAIN table |->
                                   row_agreement(table[i], r_bar)]),
                    Num(n, 1))
           inv == FDiv(Num(1, 1), FMul(Num(n, 1), r_bar))
           p_a == FAdd(FMul(p_primea, FSub(Num(1, 1), inv)), inv)
           PI_ks == [k \in DOMAIN available_labels |->
                         label_share(table, available_labels[k],
                                     total_num_ratings)]
           p_e == SumFloats([k \in DOMAIN PI_ks |-> FMul(PI_ks[k], PI_ks[k])])
       IN IF total_num_ratings = 0 /\ dtype = "object"
          THEN [err |-> "ZeroDivisionError", alpha |-> None]
          ELSE [err |-> "none",
                alpha |-> FDiv(FSub(p_a, p_e), FSub(Num(1, 1), p_e))]

\* calculate_irr as one call
calculate_irr(r1, r2, dtype) ==
    LET t == get_agreement_table(r1, r2)
    IN IF t.err # "none"
       THEN [err |-> t.err, alpha |-> None]
       ELSE alpha_of_table(t.rows, dtype)

\* agreement_table.drop(columns=["num_rater"], inplace=True)
drop_num_rater(table) ==
    [i \in DOMAIN table |->
        [table[i] EXCEPT !.cells =
            [c \in DOMAIN table[i].cells \ {num_rater} |-> table[i].cells[c]]]]

(***************************************************************************)
(* The state machine: one call of calculate_irr on a pair of rater lists   *)
(***************************************************************************)
InitWith(rows) ==
    /\ rater1_data \in SeqsUpTo(rows, MaxRows)
    /\ rater2_data \in SeqsUpTo(rows, MaxRows)
    /\ agreement_table = <<>>
    /\ krip_alpha = None
    /\ error = "none"
    /\ pc = "start"

Init == InitWith(MessyRows)

InitClean == InitWith(CleanRows)

\* agreement_table = self._get_agreement_table(rater1_data, rater2_data)
GetAgreementTable ==
    /\ pc = "start"
    /\ LET t == get_agreement_table(rater1_data, rater2_data)
       IN /\ agreement_table' = t.rows
          /\ error' = t.err
          /\ pc' = IF t.err = "none" THEN "table" ELSE "raised"
    /\ UNCHANGED <<rater1_data, rater2_data, krip_alpha>>

\* the rest of calculate_irr, from n = len(agreement_table) to the return
CalculateIrr ==
    /\ pc = "table"
    /\ \E dtype \in {"int64", "object"} :
         LET r == alpha_of_table(agreement_table, dtype)
         IN /\ krip_alpha' = r.alpha
            /\ error' = r.err
            /\ pc' = IF r.err = "none" THEN "done" ELSE "raised"
    /\ agreement_table' = IF Len(agreement_table) = 0
                          THEN agreement_table
                          ELSE drop_num_rater(agreement_table)
    /\ UNCHANGED <<rater1_data, rater2_data>>

Next == GetAgreementTable \/ CalculateIrr

Spec == Init /\ [][Next]_vars

SpecClean == InitClean /\ [][Next]_vars

TypeOK ==
    /\ pc \in {"start", "table", "done", "raised"}
    /\ error \in {"none", "KeyError", "TypeError", "ZeroDivisionError"}
    /\ krip_alpha.kind \in {"none", "num", "nan", "inf"}

(***************************************************************************)
(* Vocabulary of the properties                                            *)
(***************************************************************************)
\* t is s without its leading and trailing whitespace
IsTrimOf(s, t) ==
    /\ \E a \in 0..Len(s) :
         /\ a + Len(t) <= Len(s)
         /\ \A i \in 1..a : s[i] \in Whitespace
         /\ \A i \in 1..Len(t) : s[a + i] = t[i]
         /\ \A i \in (a + Len(t) + 1)..Len(s) : s[i] \in Whitespace
    /\ t # <<>> => t[1] \notin Whitespace /\ t[Len(t)] \notin Whitespace

Annotations == Range(rater1_data) \cup Range(rater2_data)

\* the table as returned by _get_agreement_table, before calculate_irr
\* drops its num_rater column
TableBuilt == pc = "table"

\* index of the rater's last annotation of the item, 0 when there is none
LastIndex(rater_data, key) ==
    LET hits == {i \in DOMAIN rater_data : IsTrimOf(rater_data[i].data, key)}
    IN IF hits = {} THEN 0 ELSE CHOOSE i \in hits : \A j \in hits : j <= i

\* the label list of the rater's last annotation of the item
LastLabels(rater_data, key) ==
    IF LastIndex(rater_data, key) = 0 THEN <<>>
    ELSE process_labels(rater_data[LastIndex(rater_data, key)].labels)

Occurrences(tokens, c) == Cardinality({i \in DOMAIN tokens : tokens[i] = c})

Bit(b) == IF b THEN 1 ELSE 0

\* number of raters whose label list for the item is non-empty
RatersOf(key) ==
    Bit(LastLabels(rater1_data, key) # <<>>)
    + Bit(LastLabels(rater2_data, key) # <<>>)

(***************************************************************************)
(* C1                                                                      *)
(***************************************************************************)
\* C1: the table returned by _get_agreement_table has exactly one row per
\* distinct whitespace-stripped item text of either list and no other row:
\* every annotation's item lands in exactly one row, whose key is the item
\* text stripped; every row's key is the stripped text of some annotation;
\* no key is in two rows.
C1_OneRowPerStrippedKey ==
    TableBuilt =>
        /\ \A r \in Annotations :
             Cardinality({i \in DOMAIN agreement_table :
                            IsTrimOf(r.data, agreement_table[i].data)}) = 1
        /\ \A i \in DOMAIN agreement_table :
             \E r \in Annotations : IsTrimOf(r.data, agreement_table[i].data)
        /\ \A i, j \in DOMAIN agreement_table :
             agreement_table[i].data = agreement_table[j].data => i = j

\* rater 1 wrote "x " and rater 2 wrote "x": the table has the single row "x"
C1_Witness ==
    /\ TableBuilt
    /\ \E r \in Range(rater1_data) : r.data = KeyXTrail
    /\ \E r \in Range(rater2_data) : r.data = KeyX
    /\ Len(agreement_table) = 1
    /\ agreement_table[1].data = KeyX

(***************************************************************************)
(* C2                                                                      *)
(***************************************************************************)
\* C2: in the table built by _get_agreement_table every row's num_rater
\* equals the number of raters whose label list for the item is non-empty,
\* and is never 0 (1 for an item of one rater only, 2 for an item of both).
C2_RaterCount ==
    TableBuilt =>
        \A i \in DOMAIN agreement_table :
            /\ agreement_table[i].cells[num_rater]
                   = RatersOf(agreement_table[i].data)
            /\ agreement_table[i].cells[num_rater] # 0

(***************************************************************************)
(* C3                                                                      *)
(***************************************************************************)
\* C3: in the table built by _get_agreement_table, for every row and every
\* vocabulary label, the count is in {0, 1, 2} and equals the number of
\* raters whose label set for the item includes the label, whatever the raw
\* label text (also one that repeats a token, "a, a").
C3_CountIsNumberOfRaters ==
    TableBuilt =>
        \A i \in DOMAIN agreement_table : \A label \in Range(available_labels) :
            LET key == agreement_table[i].data
            IN /\ agreement_table[i].cells[label] \in {0, 1, 2}
               /\ agreement_table[i].cells[label]
                      = Bit(label \in Range(LastLabels(rater1_data, key)))
                        + Bit(label \in Range(LastLabels(rater2_data, key)))

(***************************************************************************)
(* C4                                                                      *)
(***************************************************************************)
\* C4: merge symmetry: _get_agreement_table(A, B) and
\* _get_agreement_table(B, A) have the same item keys and, for each key, the
\* same per-label counts and the same num_rater (the rows may come in
\* another order).
C4_MergeSymmetry ==
    TableBuilt =>
        LET swapped == get_agreement_table(rater2_data, rater1_data)
        IN /\ swapped.err = "none"
           /\ Len(swapped.rows) = Len(agreement_table)
           /\ Range(swapped.rows) = Range(agreement_table)

\* the raters differ, one item has labels of both, and the swapped call
\* lists the rows in another order
C4_Witness ==
    /\ TableBuilt
    /\ Len(agreement_table) = 2
    /\ \E i \in DOMAIN agreement_table :
         /\ LastLabels(rater1_data, agreement_table[i].data) # <<>>
         /\ LastLabels(rater2_data, agreement_table[i].data) # <<>>
         /\ LastLabels(rater1_data, agreement_table[i].data)
                # LastLabels(rater2_data, agreement_table[i].data)
    /\ get_agreement_table(rater2_data, rater1_data).rows # agreement_table

(***************************************************************************)
(* C5                                                                      *)
(***************************************************************************)
\* every annotation of the list carries at least one label token that is
\* not blank
EveryItemLabelled(rater_data) ==
    \A i \in DOMAIN rater_data :
        \A t \in Range(process_labels(rater_data[i].labels)) : t # <<>>

\* C5: perfect self-agreement: when the same list A, in which every item has
\* at least one label (several labels included), is given as both raters,
\* calculate_irr(A, A) returns alpha exactly 1.
C5_SelfAgreementIsOne ==
    (/\ pc = "done"
     /\ rater1_data = rater2_data
     /\ rater1_data # <<>>
     /\ EveryItemLabelled(rater1_data))
        => krip_alpha = Num(1, 1)

(***************************************************************************)
(* C6                                                                      *)
(***************************************************************************)
IsSet(tokens) == Cardinality(Range(tokens)) = Len(tokens)

\* both raters labelled every item, each with a set of known labels, and on
\* no item do the two sets share a label
FullyDisjoint(r1, r2) ==
    LET hash_map == build_hash_map(r1, r2)
    IN /\ hash_map # <<>>
       /\ \A i \in DOMAIN hash_map :
            LET l1 == hash_map[i].label_1
                l2 == hash_map[i].label_2
            IN /\ l1 # <<>> /\ l2 # <<>>
               /\ IsSet(l1) /\ IsSet(l2)
               /\ Range(l1) \cup Range(l2) \subseteq Range(available_labels)
               /\ Range(l1) \cap Range(l2) = {}

\* the rater's list with label added to each of its annotations of the item
WithLabel(rater_data, key, label) ==
    [i \in DOMAIN rater_data |->
        IF IsTrimOf(rater_data[i].data, key)
        THEN [rater_data[i] EXCEPT !.labels = @ \o <<",", " ">> \o label]
        ELSE rater_data[i]]

\* the rater's list in which the item carries label: unchanged when the
\* rater's label set for the item has it already
Agreeing(rater_data, key, label) ==
    IF label \in Range(LastLabels(rater_data, key))
    THEN rater_data
    ELSE WithLabel(rater_data, key, label)

C7_EmptyInputRaises ==
    (rater1_data = <<>> /\ rater2_data = <<>>) =>
        /\ pc # "done"
        /\ krip_alpha = None
        /\ pc = "raised" => error = "ZeroDivisionError"
        /\ pc = "table" => Len(agreement_table) = 0

\* the call on two empty lists has ended
C7_Witness ==
    /\ rater1_data = <<>>
    /\ rater2_data = <<>>
    /\ pc = "raised"
    /\ error = "ZeroDivisionError"

(***************************************************************************)
(* C8                                                                      *)
(***************************************************************************)
\* C8: calculate_irr never returns a value obtained through a zero
\* denominator r_bar * (r_i - 1): when some row has total label count
\* r_i <= 1 the call ends in an error instead of returning.
C8_NoReturnThroughZeroDenominator ==
    pc = "done" =>
        \A i \in DOMAIN agreement_table : row_total(agreement_table[i]) > 1

(***************************************************************************)
(* C9                                                                      *)
(***************************************************************************)
\* every token of every annotation but the blank ones is a known label
OnlyBlankOrKnown ==
    \A r \in Annotations :
        \A t \in Range(process_labels(r.labels)) :
            t = <<>> \/ t \in Range(available_labels)

\* the rater's last annotation of the item has a label text that is not
\* empty after trimming
HasLabelText(rater_data, key) ==
    /\ LastIndex(rater_data, key) # 0
    /\ strip(rater_data[LastIndex(rater_data, key)].labels) # <<>>

\* C9: a raw label text that is empty after trimming gives an empty label
\* list for that rater and item, and building the table then succeeds: the
\* rater adds 0 to the row's num_rater and to every label count.
C9_BlankLabelsAreNoLabels ==
    (pc # "start" /\ OnlyBlankOrKnown) =>
        /\ \A r \in Annotations :
             strip(r.labels) = <<>> => process_labels(r.labels) = <<>>
        /\ error # "KeyError"
        /\ TableBuilt =>
             \A i \in DOMAIN agreement_table :
                 LET key == agreement_table[i].data
                 IN /\ agreement_table[i].cells[num_rater]
                           = Bit(HasLabelText(rater1_data, key))
                             + Bit(HasLabelText(rater2_data, key))
                    /\ \A label \in Range(available_labels) :
                          agreement_table[i].cells[label]
                              = Occurrences(LastLabels(rater1_data, key), label)
                                + Occurrences(LastLabels(rater2_data, key), label)

(***************************************************************************)
(* C10                                                                     *)
(***************************************************************************)
\* C10: last annotation wins per rater: every count of a row of the built
\* table is the number of occurrences of the column's name in rater 1's
\* last label list for the item plus that in rater 2's last label list, and
\* num_rater counts, besides, the raters that annotated the item; earlier
\* annotations of the item by the same rater leave no trace, and repeated
\* annotations by rater 1 never erase the labels of rater 2.
C10_LastAnnotationWins ==
    TableBuilt =>
        \A i \in DOMAIN agreement_table : \A c \in CountColumns :
            LET key == agreement_table[i].data
                l1 == LastLabels(rater1_data, key)
                l2 == LastLabels(rater2_data, key)
            IN agreement_table[i].cells[c]
                   = Occurrences(l1, c) + Occurrences(l2, c)
                     + (IF c = num_rater THEN RatersOf(key) ELSE 0)

\* rater 1 annotated item x twice with different labels ("x" as a, then
\* "x " as B) and rater 2 annotated it too
C10_Witness ==
    /\ TableBuilt
    /\ rater1_data = <<RaterDataRow(KeyX, LabA), RaterDataRow(KeyXTrail, LabUpperB)>>
    /\ \E r \in Range(rater2_data) : r = RaterDataRow(KeyX, LabAB)
    /\ \E i \in DOMAIN agreement_table :
         /\ agreement_table[i].data = KeyX
         /\ agreement_table[i].cells[<<"a">>] = 1
         /\ agreement_table[i].cells[<<"b">>] = 2

====
